---- MODULE Spec2Model ----
(***************************************************************************)
(* The Frequency Tagging cells of the Analysis notebook and the cells of   *)
(* the Processing notebook as state machines over the notebooks' global    *)
(* variables.  Spec, SpecCells, SpecSmooth and SpecInvalid run the         *)
(* Analysis cells, SpecProc and SpecEvoked the Processing cells; each      *)
(* leaves the other notebook untouched.                                    *)
(*                                                                         *)
(* Numbers.  numpy computes in float64; the model computes the same        *)
(* expressions exactly, on integers with a fixed denominator:              *)
(*   amp, target_amp   amplitude units (non-negative integers);            *)
(*   sub_amp           amplitude * SubScale  (SubScale = 6 reference bins);*)
(*   norm_amp          amplitude * NormScale (NormScale = SubScale * 6);   *)
(*   freqs             numerators num[k] over one denominator den (Hz);    *)
(*   target_freqs      numerators over TargetDen (Hz).                     *)
(* Indices are Python's (0-based, negative = from the end); TLA+ sequence  *)
(* positions are 1-based, the conversion is in At.                         *)
(***************************************************************************)
EXTENDS Integers, Sequences, FiniteSets, TLC

\* ---------------------------------------------------------------- bounds
MaxNfreqs == 14
MaxChan == 2
MaxAmp == 2
MaxPeaks == 1
MaxRate == 2
MaxTargets == 2
MaxTargetNum == 3
TargetDen == 4
MaxBins == 5
MaxProcChan == 3
MaxInteractiveChan == 2
MaxClicks == 1
MaxEvents == 2
MaxFiles == 2
MaxCodes == 2
MaxRois == 2
MaxRoiChan == 2
MaxVolt == 1
NTimes == 2

\* ---------------------------------------------------------------- state
VARIABLES
  erp1,            \* the averaged recording: shape, sampling rate, spectrum
  cell_target_freqs, \* the list written in the target-frequency cell
  pc,              \* next statement group of the running cell, or "idle"
  bound,           \* names of the notebook globals that are bound
  uninit,          \* bound arrays still holding memory np.empty left unwritten
  err,             \* exception that ended the last cell run, or "none"
  last,            \* the cell run last: "none", "tagging", "target", "time_frequency", ...
  nfreqs, sampling_rate,
  freqs, amp, sub_amp, norm_amp,
  target_freqs, closest_freqs, target_amp,
  \* the Processing notebook (its own kernel; pc, bound, err and last are shared names)
  eeg,             \* the MNE object: kind, channels, bads, reference, montage, samples
  events,          \* the N x 3 events matrix, a sequence of rows
  evcode_files,    \* the event-code files listed in the re-coding cell, as their codes
  evcodes,
  cell_rois,       \* the dict written at the top of the ROI cell
  rois, proj_vec,
  roi_source,      \* the channel names and samples the ROI cell last read from eeg
  n_interp, n_components,
  interpolated,    \* the channels interpolate_bads has interpolated so far
  run_all,         \* TRUE: the cells are run top to bottom ("Run All"); FALSE: in any order
  done             \* under run_all, the number of cells run so far

procVars == <<eeg, events, evcode_files, evcodes, cell_rois, rois, proj_vec, roi_source,
              n_interp, n_components, interpolated, run_all, done>>

vars == <<erp1, cell_target_freqs, pc, bound, uninit, err, last, nfreqs, sampling_rate,
          freqs, amp, sub_amp, norm_amp, target_freqs, closest_freqs, target_amp,
          eeg, events, evcode_files, evcodes, cell_rois, rois, proj_vec, roi_source,
          n_interp, n_components, interpolated, run_all, done>>

\* ---------------------------------------------------------------- numpy helpers
RECURSIVE Sum(_)
Sum(s) == IF Len(s) = 0 THEN 0 ELSE Head(s) + Sum(Tail(s))

Abs(x) == IF x < 0 THEN -x ELSE x

\* numpy accepts the index j on an axis of length n (else IndexError)
InBounds(j, n) == -n <= j /\ j < n

\* numpy's normalisation of a negative index
Wrap(j, n) == IF j < 0 THEN j + n ELSE j

\* row[j] for a Python index j
At(row, j) == row[Wrap(j, Len(row)) + 1]

\* row[inds] for an index array (fancy indexing: one entry per index, repeats kept)
Take(row, inds) == [k \in 1..Len(inds) |-> At(row, inds[k])]

\* arr[keep] for a boolean mask
MaskIdx(keep) == SelectSeq([k \in 1..Len(keep) |-> k], LAMBDA k : keep[k])
Mask(row, keep) == [j \in 1..Len(MaskIdx(keep)) |-> row[MaskIdx(keep)[j]]]

\* m.shape[0], m.shape[1] of a channels x bins matrix (a sequence of rows)
Shape0(m) == Len(m)
Shape1(m) == IF Len(m) = 0 THEN 0 ELSE Len(m[1])

\* ---------------------------------------------------------------- FFT
\* faulty variant: the Nyquist bin of an even n counted as a positive frequency (as rfftfreq does)
fftfreq_NyquistPositive(n, rate) ==
  [k \in 1..n |-> IF k - 1 <= n \div 2 THEN (k - 1) * rate ELSE (k - 1 - n) * rate]

\* np.fft.fftfreq(n, d=1/rate): numerators over the denominator n
fftfreq(n, rate) ==
  [k \in 1..n |-> IF k - 1 <= (n - 1) \div 2 THEN (k - 1) * rate ELSE (k - 1 - n) * rate]

\* np.abs(np.fft.fft(data, n, axis=1)) of real data: column k and column n-k are
\* conjugates, so the n magnitudes are the one-sided spectrum mirrored
fftabs(e) ==
  [c \in 1..e.nchan |->
    [k \in 1..e.ntimes |->
      IF k - 1 <= e.ntimes \div 2 THEN e.spectrum[c][k]
      ELSE e.spectrum[c][e.ntimes - (k - 1) + 1]]]

\* faulty variant: the mask freqs > 0, which drops bin 0
NonNeg_Strict(fr) == [k \in 1..Len(fr) |-> fr[k] > 0]

\* the mask freqs >= 0
NonNeg(fr) == [k \in 1..Len(fr) |-> fr[k] >= 0]

\* ---------------------------------------------------------------- recordings
Cells(C, W) == (1..C) \X (1..W)
NoPeak == <<0, 0>>

\* a channels x W matrix that is 0 except for the given peaks (cell -> height)
PeakMatrix(C, W, cells, heights) ==
  [c \in 1..C |-> [k \in 1..W |->
    IF \E p \in 1..Len(cells) : cells[p] = <<c, k>>
    THEN heights[CHOOSE p \in 1..Len(cells) : cells[p] = <<c, k>>]
    ELSE 0]]

\* the one-sided magnitude spectra of the recordings considered: at most MaxPeaks
\* non-zero bins, each of height 1..MaxAmp
Spectra(C, W) ==
  { PeakMatrix(C, W, cells, heights) :
      cells \in [1..MaxPeaks -> Cells(C, W) \cup {NoPeak}],
      heights \in [1..MaxPeaks -> 1..MaxAmp] }

\* a one-sided spectrum with a different magnitude in neighbouring bins
GradedSpectrum(C, W) == [c \in 1..C |-> [k \in 1..W |-> (c + k) % (MaxAmp + 1)]]

\* the list of target frequencies written in the target-frequency cell
TargetLists == UNION { [1..n -> 0..MaxTargetNum] : n \in 0..MaxTargets }

Shapes == (1..MaxChan) \X (1..MaxNfreqs)

Recording(C, T, r, s) == [nchan |-> C, ntimes |-> T, sfreq |-> r, spectrum |-> s]

\* Sessions: the recording loaded before the cells run and the text of the
\* target-frequency cell.  Two families: every peak spectrum with one target list,
\* and every target list and sampling rate with the graded spectrum.
PeakSessions ==
  UNION { { [erp |-> Recording(sh[1], sh[2], 1, s), targets |-> <<1, 2>>] :
            s \in Spectra(sh[1], sh[2] \div 2 + 1) } : sh \in Shapes }

LookupSessions ==
  UNION { { [erp |-> Recording(sh[1], sh[2], r, GradedSpectrum(sh[1], sh[2] \div 2 + 1)),
             targets |-> tf] :
            r \in 1..MaxRate, tf \in TargetLists } : sh \in Shapes }

Sessions == PeakSessions \cup LookupSessions

NoFreqs == [den |-> 1, num |-> <<>>]

\* no recording is loaded in the Processing notebook
NoEEG ==
  [kind |-> "none", ch_names |-> <<>>, bads |-> {}, custom_ref_applied |-> FALSE,
   montage |-> FALSE, n_epochs |-> 0, tracked |-> FALSE, data |-> <<>>]

\* the ROI cell has read nothing
NoRoiSource == [ch_names |-> <<>>, data |-> <<>>]

\* the Processing notebook is not open
NoProcessing ==
  /\ eeg = NoEEG
  /\ events = <<>>
  /\ evcode_files = <<>>
  /\ evcodes = <<>>
  /\ cell_rois = <<>>
  /\ rois = <<>>
  /\ proj_vec = <<>>
  /\ roi_source = NoRoiSource
  /\ n_interp = 0
  /\ n_components = 0
  /\ interpolated = {}
  /\ run_all = FALSE
  /\ done = 0

Init ==
  /\ \E ses \in Sessions :
       /\ erp1 = ses.erp
       /\ cell_target_freqs = ses.targets
  /\ pc = "idle"
  /\ bound = {"erp1"}
  /\ uninit = {}
  /\ err = "none"
  /\ last = "none"
  /\ nfreqs = 0
  /\ sampling_rate = 0
  /\ freqs = NoFreqs
  /\ amp = <<>>
  /\ sub_amp = <<>>
  /\ norm_amp = <<>>
  /\ target_freqs = <<>>
  /\ closest_freqs = NoFreqs
  /\ target_amp = <<>>
  /\ NoProcessing

\* ---------------------------------------------------------------- Frequency Tagging cell
\* 1/sampling_rate (a Python float division) or 1.0/(n*d) inside np.fft.fftfreq raises
\* ZeroDivisionError; erp1.info['sfreq'] is a Python float
FFTDivisionByZero(e) == e.sfreq = 0 \/ e.ntimes = 0

\* "FFT Settings" and "Run FFT"
RunFFT ==
  /\ pc = "idle"
  /\ nfreqs' = erp1.ntimes
  /\ sampling_rate' = erp1.sfreq
  /\ last' = "tagging"
  /\ IF FFTDivisionByZero(erp1)
     THEN /\ bound' = bound \cup {"data", "nfreqs", "sampling_rate"}
          /\ err' = "ZeroDivisionError"
          /\ pc' = "idle"
          /\ UNCHANGED <<freqs, amp>>
     ELSE LET n == erp1.ntimes
              fr == fftfreq(n, erp1.sfreq)
              full == fftabs(erp1)
          IN /\ amp' = [c \in 1..Len(full) |-> Mask(full[c], NonNeg(fr))]
             /\ freqs' = [den |-> n, num |-> Mask(fr, NonNeg(fr))]
             /\ bound' = bound \cup {"data", "nfreqs", "sampling_rate", "freqs", "amp"}
             /\ err' = "none"
             /\ pc' = "subtract"
  /\ UNCHANGED procVars
  /\ UNCHANGED <<erp1, cell_target_freqs, uninit, sub_amp, norm_amp, target_freqs, closest_freqs, target_amp>>

\* "Subtract average of bins +/- 3-5": the offsets
reference_bins == <<-5, -4, -3, 3, 4, 5>>

\* reference_inds of iteration i: the offsets shifted to bin i, the out-of-range ones dropped
reference_inds(i, F) ==
  SelectSeq([k \in 1..Len(reference_bins) |-> reference_bins[k] + i],
            LAMBDA j : j >= 0 /\ j < F)

\* faulty variant: the filtered, shifted reference_inds of the iteration
BaselineInds_Shifted(i, F) == reference_inds(i, F)

\* the index array the baseline mean is taken over in iteration i
BaselineInds(i, F) == reference_bins

\* amp[:, inds] raises IndexError
IndexRaises(inds, F) == \E k \in 1..Len(inds) : ~InBounds(inds[k], F)

\* sub_amp is kept as amplitude * SubScale, the mean of SubScale entries being sum / SubScale
SubScale == Len(reference_bins)

\* one row of the loop's result: amp[i] - np.mean(amp[BaselineInds])
SubtractRow(row) ==
  [i \in 1..Len(row) |->
    SubScale * row[i] - Sum(Take(row, BaselineInds(i - 1, Len(row))))]

\* faulty variant: sub_amp = amp, a second name for the same array, so that the loop's
\* writes to sub_amp land in amp as well
Subtract_InPlace ==
  /\ pc = "subtract"
  /\ IF Shape1(amp) > 0 /\ IndexRaises(BaselineInds(0, Shape1(amp)), Shape1(amp))
     THEN /\ sub_amp' = amp
          /\ err' = "IndexError"
          /\ pc' = "idle"
     ELSE /\ sub_amp' = [c \in 1..Shape0(amp) |-> SubtractRow(amp[c])]
          /\ err' = "none"
          /\ pc' = "clamp"
  /\ amp' = sub_amp'
  /\ bound' = bound \cup {"sub_amp"}
  /\ UNCHANGED procVars
  /\ UNCHANGED <<erp1, cell_target_freqs, last, uninit, nfreqs, sampling_rate, freqs, norm_amp,
                 target_freqs, closest_freqs, target_amp>>

\* sub_amp = np.empty_like(amp) and the subtraction loop
Subtract ==
  /\ pc = "subtract"
  /\ IF Shape1(amp) > 0 /\ IndexRaises(BaselineInds(0, Shape1(amp)), Shape1(amp))
     THEN /\ sub_amp' = [c \in 1..Shape0(amp) |-> [i \in 1..Shape1(amp) |-> 0]]
          /\ uninit' = uninit \cup {"sub_amp"}
          /\ err' = "IndexError"
          /\ pc' = "idle"
     ELSE /\ sub_amp' = [c \in 1..Shape0(amp) |-> SubtractRow(amp[c])]
          /\ uninit' = uninit \ {"sub_amp"}
          /\ err' = "none"
          /\ pc' = "clamp"
  /\ bound' = bound \cup {"sub_amp"}
  /\ UNCHANGED procVars
  /\ UNCHANGED <<erp1, cell_target_freqs, last, nfreqs, sampling_rate, freqs, amp, norm_amp,
                 target_freqs, closest_freqs, target_amp>>

\* faulty variant: the clamping statement left out
ClampValue_Skip(x) == x

\* faulty variant: values that are not positive replaced by a floor of 1
ClampValue_Floor(x) == IF x <= 0 THEN 1 ELSE x

\* sub_amp[sub_amp < 0] = 0
ClampValue(x) == IF x < 0 THEN 0 ELSE x

Clamp ==
  /\ pc = "clamp"
  /\ sub_amp' = [c \in 1..Shape0(sub_amp) |->
                  [i \in 1..Shape1(sub_amp) |-> ClampValue(sub_amp[c][i])]]
  /\ pc' = "smooth"
  /\ UNCHANGED procVars
  /\ UNCHANGED <<erp1, cell_target_freqs, bound, uninit, err, last, nfreqs, sampling_rate, freqs, amp, norm_amp,
                 target_freqs, closest_freqs, target_amp>>

\* "Average amplitudes across neighboring bins": the offsets
bins_to_avg == <<-1, 0, 1>>

\* faulty variant: out-of-range indices clipped to the edge bins (edge padding), not dropped
inds_to_avg_Padded(i, F) ==
  [k \in 1..Len(bins_to_avg) |->
    IF bins_to_avg[k] + i < 0 THEN 0
    ELSE IF bins_to_avg[k] + i > F - 1 THEN F - 1 ELSE bins_to_avg[k] + i]

\* inds_to_avg of iteration i
inds_to_avg(i, F) ==
  SelectSeq([k \in 1..Len(bins_to_avg) |-> bins_to_avg[k] + i],
            LAMBDA j : j >= 0 /\ j < F)

RECURSIVE Factorial(_)
Factorial(n) == IF n <= 1 THEN 1 ELSE n * Factorial(n - 1)

\* norm_amp is kept as sub_amp * SmoothScale, a common multiple of the window sizes
SmoothScale == Factorial(Len(bins_to_avg))
NormScale == SubScale * SmoothScale

\* faulty variant: the mean added to what a norm_amp left by an earlier run holds in
\* that bin (np.zeros left out, += in the loop)
SmoothValue_OntoLeftover(row, i) ==
  LET inds == inds_to_avg(i, Len(row))
  IN Sum(Take(row, inds)) * (SmoothScale \div Len(inds))
       + (IF "norm_amp" \in bound /\ i < Shape1(norm_amp) THEN norm_amp[1][i + 1] ELSE 0)

\* faulty variant: the bin's own value, no neighbour averaged in
SmoothValue_Own(row, i) == At(row, i) * SmoothScale

\* np.mean(sub_amp[c, inds_to_avg])
SmoothValue(row, i) ==
  LET inds == inds_to_avg(i, Len(row))
  IN Sum(Take(row, inds)) * (SmoothScale \div Len(inds))

\* norm_amp = np.zeros((sub_amp.shape[0], len(freqs))) and the averaging loop
Smooth ==
  /\ pc = "smooth"
  /\ IF Shape1(sub_amp) > Len(freqs.num)
     THEN /\ norm_amp' = [c \in 1..Shape0(sub_amp) |->
                           [i \in 1..Len(freqs.num) |-> SmoothValue(sub_amp[c], i - 1)]]
          /\ err' = "IndexError"
          /\ pc' = "idle"
     ELSE /\ norm_amp' = [c \in 1..Shape0(sub_amp) |->
                           [i \in 1..Len(freqs.num) |->
                             IF i <= Shape1(sub_amp) THEN SmoothValue(sub_amp[c], i - 1) ELSE 0]]
          /\ err' = "none"
          /\ pc' = "del"
  /\ bound' = bound \cup {"norm_amp"}
  /\ UNCHANGED procVars
  /\ UNCHANGED <<erp1, cell_target_freqs, last, uninit, nfreqs, sampling_rate, freqs, amp, sub_amp,
                 target_freqs, closest_freqs, target_amp>>

\* del sub_amp
DelSubAmp ==
  /\ pc = "del"
  /\ bound' = bound \ {"sub_amp"}
  /\ sub_amp' = <<>>
  /\ pc' = "idle"
  /\ UNCHANGED procVars
  /\ UNCHANGED <<erp1, cell_target_freqs, uninit, err, last, nfreqs, sampling_rate, freqs, amp, norm_amp,
                 target_freqs, closest_freqs, target_amp>>

\* ---------------------------------------------------------------- target-frequency cell
\* faulty variant: the signed difference freqs - f, np.abs left out
Distances_Signed(fr, f) == [j \in 1..Len(fr.num) |-> fr.num[j] * TargetDen - f * fr.den]

\* np.abs(freqs - f), times freqs.den * TargetDen
Distances(fr, f) == [j \in 1..Len(fr.num) |-> Abs(fr.num[j] * TargetDen - f * fr.den)]

\* np.argmin: scan from the left, keep the first strictly smaller value
RECURSIVE ArgMinScan(_, _, _)
ArgMinScan(d, j, best) ==
  IF j > Len(d) THEN best
  ELSE ArgMinScan(d, j + 1, IF d[j] < d[best] THEN j ELSE best)

\* faulty variant: the last of several equal minima
argmin_LastTie(d) ==
  (CHOOSE j \in 1..Len(d) :
     /\ \A k \in 1..Len(d) : d[j] <= d[k]
     /\ \A k \in (j + 1)..Len(d) : d[k] > d[j]) - 1

\* the Python index np.argmin returns on a non-empty array
argmin(d) == ArgMinScan(d, 2, 1) - 1

\* ind of every loop iteration
LookupInds(fr, tf) == [i \in 1..Len(tf) |-> argmin(Distances(fr, tf[i]))]

\* the first iteration whose amp[:, ind] raises IndexError, 0 if none does
FirstRaise(inds, F) ==
  IF \E i \in 1..Len(inds) : ~InBounds(inds[i], F)
  THEN CHOOSE i \in 1..Len(inds) :
         /\ ~InBounds(inds[i], F)
         /\ \A k \in 1..(i - 1) : InBounds(inds[k], F)
  ELSE 0

TargetCell ==
  /\ pc = "idle"
  /\ LET tf == cell_target_freqs IN
       /\ target_freqs' = tf
       /\ IF "amp" \notin bound
          THEN \* closest_freqs is allocated, then amp.shape[0] raises NameError
               /\ closest_freqs' = [den |-> 1, num |-> [i \in 1..Len(tf) |-> 0]]
               /\ target_amp' = target_amp
               /\ bound' = bound \cup {"target_freqs", "closest_freqs"}
               /\ uninit' = IF Len(tf) > 0
                            THEN uninit \cup {"closest_freqs"}
                            ELSE uninit \ {"closest_freqs"}
               /\ err' = "NameError"
          ELSE LET inds == LookupInds(freqs, tf)
                   F == Shape1(amp)
                   bad == FirstRaise(inds, F)
               IN /\ closest_freqs' =
                       [den |-> freqs.den,
                        num |-> [i \in 1..Len(tf) |->
                                  IF bad = 0 \/ i <= bad THEN At(freqs.num, inds[i]) ELSE 0]]
                  /\ target_amp' =
                       [c \in 1..Shape0(amp) |->
                         [i \in 1..Len(tf) |->
                           IF bad = 0 \/ i < bad THEN At(amp[c], inds[i]) ELSE 0]]
                  /\ bound' = bound \cup {"target_freqs", "closest_freqs", "target_amp"}
                  /\ uninit' = IF bad = 0
                               THEN uninit \ {"closest_freqs", "target_amp"}
                               ELSE (uninit \ {"closest_freqs"})
                                      \cup {"target_amp"}
                                      \cup (IF bad < Len(tf) THEN {"closest_freqs"} ELSE {})
                  /\ err' = IF bad = 0 THEN "none" ELSE "IndexError"
  /\ last' = "target"
  /\ pc' = "idle"
  /\ UNCHANGED procVars
  /\ UNCHANGED <<erp1, cell_target_freqs, nfreqs, sampling_rate, freqs, amp, sub_amp, norm_amp>>

\* ---------------------------------------------------------------- time-frequency cells
\* np.logspace(np.log10(3), np.log10(40), num=15): 15 values from 3 Hz to 40 Hz with a
\* constant ratio, here rounded to 1/1000 Hz
TFRFreqs ==
  [den |-> 1000,
   num |-> <<3000, 3610, 4343, 5226, 6288, 7566, 9104, 10954, 13181, 15860, 19083, 22962,
             27628, 33244, 40000>>]

\* what a time-frequency cell does to the globals: its first statement rebinds freqs,
\* the others bind the settings and the result of the decomposition of the epochs
RebindFreqs ==
  /\ freqs' = TFRFreqs
  /\ bound' = bound \cup {"freqs", "n_cycles", "picks", "decim", "average", "power", "itc"}
  /\ last' = "time_frequency"
  /\ err' = "none"
  /\ UNCHANGED procVars
  /\ UNCHANGED <<erp1, cell_target_freqs, pc, uninit, nfreqs, sampling_rate, amp, sub_amp,
                 norm_amp, target_freqs, closest_freqs, target_amp>>

\* "Morlet Wavelet Decomposition"
Morlet ==
  /\ pc = "idle"
  /\ RebindFreqs

\* "Multitaper Method": the same statements, tfr_multitaper in the place of tfr_morlet
Multitaper ==
  /\ pc = "idle"
  /\ RebindFreqs

\* ---------------------------------------------------------------- the notebook
Next ==
  \/ RunFFT
  \/ Subtract
  \/ Clamp
  \/ Smooth
  \/ DelSubAmp
  \/ TargetCell

Spec == Init /\ [][Next]_vars

\* ---------------------------------------------------------------- the notebook with its other cells
\* The Frequency Tagging cells run in any order with the two time-frequency cells and
\* the ERP cell, on recordings of MaxChan channels.

\* a second one-sided spectrum of the same shape
SteepSpectrum(C, W) == [c \in 1..C |-> [k \in 1..W |-> (c + 2 * k) % (MaxAmp + 1)]]

\* the Evoked objects eeg['1'].average() can return for a recording of T time points at
\* the rate r: the epochs differ (another file, other filter settings), the shape does not
Averages(T, r) ==
  { Recording(MaxChan, T, r, s) :
      s \in {GradedSpectrum(MaxChan, T \div 2 + 1), SteepSpectrum(MaxChan, T \div 2 + 1)} }

\* target lists of consecutive numerators, the first one 0 or 1
TargetRuns ==
  { [i \in 1..n |-> f + i - 1] : n \in 0..MaxTargets, f \in 0..1 }

CellSessions ==
  { [erp |-> Recording(MaxChan, T, r, GradedSpectrum(MaxChan, T \div 2 + 1)), targets |-> tf] :
      T \in 1..MaxNfreqs, r \in 1..MaxRate, tf \in TargetRuns }

InitCells ==
  /\ \E ses \in CellSessions :
       /\ erp1 = ses.erp
       /\ cell_target_freqs = ses.targets
  /\ pc = "idle"
  /\ bound = {"erp1"}
  /\ uninit = {}
  /\ err = "none"
  /\ last = "none"
  /\ nfreqs = 0
  /\ sampling_rate = 0
  /\ freqs = NoFreqs
  /\ amp = <<>>
  /\ sub_amp = <<>>
  /\ norm_amp = <<>>
  /\ target_freqs = <<>>
  /\ closest_freqs = NoFreqs
  /\ target_amp = <<>>
  /\ NoProcessing

\* "erp1 = eeg['1'].average()", run again after the loading cell was run on other epochs:
\* erp1 is rebound, no other global of the tagging cells is touched
ErpCell ==
  /\ pc = "idle"
  /\ erp1' \in Averages(erp1.ntimes, erp1.sfreq) \ {erp1}
  /\ last' = "erp"
  /\ err' = "none"
  /\ UNCHANGED procVars
  /\ UNCHANGED <<cell_target_freqs, pc, bound, uninit, nfreqs, sampling_rate, freqs, amp,
                 sub_amp, norm_amp, target_freqs, closest_freqs, target_amp>>

NextCells ==
  \/ RunFFT
  \/ Subtract
  \/ Clamp
  \/ Smooth
  \/ DelSubAmp
  \/ TargetCell
  \/ Morlet
  \/ Multitaper
  \/ ErpCell

SpecCells == InitCells /\ [][NextCells]_vars

\* ---------------------------------------------------------------- the smoothing loop alone
\* The smoothing loop (lines 373-379) as a function of its input sub_amp: the cell is
\* at its smoothing statement with a one-channel sub_amp of 1..MaxBins bins holding
\* any values 0..MaxAmp, and freqs of the same length.
SmoothInputs == UNION { [1..F -> 0..MaxAmp] : F \in 1..MaxBins }

InitSmooth ==
  /\ \E x \in SmoothInputs :
       /\ sub_amp = <<x>>
       /\ nfreqs = 2 * Len(x) - 1
       /\ freqs = [den |-> 2 * Len(x) - 1, num |-> [k \in 1..Len(x) |-> k - 1]]
       /\ erp1 = Recording(1, 2 * Len(x) - 1, 1, <<[k \in 1..Len(x) |-> 0]>>)
  /\ cell_target_freqs = <<>>
  /\ pc = "smooth"
  /\ bound = {"erp1", "data", "nfreqs", "sampling_rate", "freqs", "amp", "sub_amp"}
  /\ uninit = {}
  /\ err = "none"
  /\ last = "tagging"
  /\ sampling_rate = 1
  /\ amp = erp1.spectrum
  /\ norm_amp = <<>>
  /\ target_freqs = <<>>
  /\ closest_freqs = NoFreqs
  /\ target_amp = <<>>
  /\ NoProcessing

NextSmooth ==
  \/ Smooth
  \/ DelSubAmp

SpecSmooth == InitSmooth /\ [][NextSmooth]_vars

\* ---------------------------------------------------------------- recordings outside the FFT's domain
\* The notebook started on a recording with no time points or with a sampling rate
\* that is not positive (mne itself makes no such Evoked; erp1 was built or edited by
\* hand).
InvalidShapes ==
  { sh \in (1..MaxChan) \X (0..MaxNfreqs) \X ((-MaxRate)..MaxRate) : sh[2] = 0 \/ sh[3] <= 0 }

InvalidSessions ==
  { [erp |-> Recording(sh[1], sh[2], sh[3],
                       GradedSpectrum(sh[1], IF sh[2] = 0 THEN 0 ELSE sh[2] \div 2 + 1)),
     targets |-> <<1, 2>>] : sh \in InvalidShapes }

InitInvalid ==
  /\ \E ses \in InvalidSessions :
       /\ erp1 = ses.erp
       /\ cell_target_freqs = ses.targets
  /\ pc = "idle"
  /\ bound = {"erp1"}
  /\ uninit = {}
  /\ err = "none"
  /\ last = "none"
  /\ nfreqs = 0
  /\ sampling_rate = 0
  /\ freqs = NoFreqs
  /\ amp = <<>>
  /\ sub_amp = <<>>
  /\ norm_amp = <<>>
  /\ target_freqs = <<>>
  /\ closest_freqs = NoFreqs
  /\ target_amp = <<>>
  /\ NoProcessing

SpecInvalid == InitInvalid /\ [][Next]_vars

\* ---------------------------------------------------------------- Processing notebook
\* The cells of Processing.ipynb that rebind or call methods of eeg and events, as one
\* atomic action each.  Init is the state after the import and loading cells: eeg is a
\* Raw object with a montage, events holds the trigger pulses.  The filter, plotting,
\* channel-picking, ICA-inspection, CSD and save/load cells are not modelled.
\* The sample values of eeg are not followed through the MNE calls (filtering,
\* interpolation, referencing, ... compute values the model has no formula for):
\* eeg.tracked says whether eeg.data is known, and a cell that reads untracked samples
\* reads any matrix of eeg's shape.  A sample matrix is a sequence of frames (one for
\* Raw, one per epoch for Epochs), a frame a sequence of channel rows, a row a record
\* [den, num]: the values num[t] / den, den = 0 standing for a row of nan.

Electrodes == <<"E1", "E2", "E3", "E4", "E5", "E6", "E7", "E8">>
RoiNames == <<"Fz", "Cz", "Pz">>

\* faulty variant: the epoching cell placed before the artifact blocking cell
CellOrder_EpochingFirst ==
  <<"recode", "mark_bads", "interpolate", "epoching", "artifact_blocking", "referencing",
    "baseline", "drop_bad", "resample", "ica", "roi">>

\* faulty variant: the downsampling cell placed before the epoching cell
CellOrder_ResampleFirst ==
  <<"recode", "mark_bads", "interpolate", "artifact_blocking", "referencing", "resample",
    "epoching", "baseline", "drop_bad", "ica", "roi">>

\* the document order of the modelled cells
CellOrder ==
  <<"recode", "mark_bads", "interpolate", "artifact_blocking", "referencing", "epoching",
    "baseline", "drop_bad", "resample", "ica", "roi">>

Position(cell) == CHOOSE k \in 1..Len(CellOrder) : CellOrder[k] = cell

\* the cell may run now: any cell in an interactive session; under Run All the next
\* cell in document order, and none after a cell has raised
CanRun(cell) == run_all => (done = Position(cell) - 1 /\ err = "none")

\* bookkeeping common to every cell (roi_source is kept while the ROI cell is the cell
\* run last)
Ran(cell, exception) ==
  /\ last' = cell
  /\ cell # "roi" => roi_source' = NoRoiSource
  /\ err' = exception
  /\ done' = IF run_all THEN Position(cell) ELSE done
  /\ UNCHANGED <<run_all, evcode_files, cell_rois, pc, uninit>>

AnalysisVars ==
  <<erp1, cell_target_freqs, nfreqs, sampling_rate, freqs, amp, sub_amp, norm_amp,
    target_freqs, closest_freqs, target_amp>>

\* events matrices as mne.find_events returns them: rows [sample, previous value, code],
\* samples increasing
EventLists ==
  UNION { { [j \in 1..n |-> <<10 * j, 0, code[j]>>] : code \in [1..n -> 1..2] } :
          n \in 1..MaxEvents }

\* the event-code files: each a one-column CSV of 1..MaxCodes codes, the j-th code of
\* the f-th file being 10 * f + j
CodeFile(f, n) == [j \in 1..n |-> 10 * f + j]
FileLists ==
  UNION { { [f \in 1..n |-> CodeFile(f, len[f])] : len \in [1..n -> 1..MaxCodes] } :
          n \in 1..MaxFiles }

\* ROI dicts, name -> list of channel names: ROI r lists the k electrodes from
\* electrode r on
RoiDicts ==
  { [r \in 1..n |-> [name |-> RoiNames[r], chans |-> SubSeq(Electrodes, r, r + k - 1)]] :
      n \in 1..MaxRois, k \in 1..MaxRoiChan }

DefaultRois == <<[name |-> RoiNames[1], chans |-> <<Electrodes[1]>>]>>
DefaultEvents == <<<<10, 0, 1>>, <<20, 0, 1>>>>
DefaultFiles == <<CodeFile(1, 1), CodeFile(2, 1)>>

RawEEG(N) ==
  [kind |-> "Raw", ch_names |-> SubSeq(Electrodes, 1, N), bads |-> {},
   custom_ref_applied |-> FALSE, montage |-> TRUE, n_epochs |-> 0,
   tracked |-> FALSE, data |-> <<>>]

ProcSession(all, N, ev, files, dict) ==
  [run_all |-> all, nchan |-> N, events |-> ev, files |-> files, rois |-> dict]

\* Sessions: top-to-bottom runs of one channel over every events matrix and file list,
\* top-to-bottom runs over every ROI dict, and interactive sessions on the default
\* cell texts
ProcSessions ==
  { ProcSession(TRUE, 1, ev, files, DefaultRois) : ev \in EventLists, files \in FileLists }
  \cup { ProcSession(TRUE, N, DefaultEvents, DefaultFiles, dict) :
           N \in 1..MaxProcChan, dict \in RoiDicts }
  \cup { ProcSession(FALSE, N, DefaultEvents, DefaultFiles, DefaultRois) :
           N \in 1..MaxInteractiveChan }

InitProc ==
  /\ \E ses \in ProcSessions :
       /\ run_all = ses.run_all
       /\ eeg = RawEEG(ses.nchan)
       /\ events = ses.events
       /\ evcode_files = ses.files
       /\ cell_rois = ses.rois
  /\ done = 0
  /\ evcodes = <<>>
  /\ rois = <<>>
  /\ proj_vec = <<>>
  /\ roi_source = NoRoiSource
  /\ n_interp = 0
  /\ n_components = 0
  /\ interpolated = {}
  /\ bound = {"eeg", "events"}
  /\ pc = "idle"
  /\ uninit = {}
  /\ err = "none"
  /\ last = "none"
  /\ erp1 = Recording(1, 1, 1, <<<<0>>>>)
  /\ cell_target_freqs = <<>>
  /\ nfreqs = 0
  /\ sampling_rate = 0
  /\ freqs = NoFreqs
  /\ amp = <<>>
  /\ sub_amp = <<>>
  /\ norm_amp = <<>>
  /\ target_freqs = <<>>
  /\ closest_freqs = NoFreqs
  /\ target_amp = <<>>

\* "Reading Event Codes": the rows with trigger code 1
TriggerOnes(ev) == SelectSeq(ev, LAMBDA row : row[3] = 1)

\* np.concatenate(evcodes).flatten() of one-column files: file after file
RECURSIVE Concatenate(_)
Concatenate(files) ==
  IF Len(files) = 0 THEN <<>> ELSE Head(files) \o Concatenate(Tail(files))

\* events[:, 2] = codes raises ValueError: the shapes cannot be broadcast
CannotBroadcast(ev, codes) == Len(codes) # Len(ev) /\ Len(codes) # 1

\* events[:, 2] = codes: one code per row, a single code broadcast to every row
AssignCodes(ev, codes) ==
  [j \in 1..Len(ev) |->
    <<ev[j][1], ev[j][2], IF Len(codes) = Len(ev) THEN codes[j] ELSE codes[1]>>]

RecodeEvents ==
  /\ CanRun("recode")
  /\ LET kept == TriggerOnes(events)
         codes == Concatenate(evcode_files)
     IN /\ evcodes' = codes
        /\ IF CannotBroadcast(kept, codes)
           THEN events' = kept /\ Ran("recode", "ValueError")
           ELSE events' = AssignCodes(kept, codes) /\ Ran("recode", "none")
  /\ bound' = bound \cup {"evcode_files", "evcodes"}
  /\ UNCHANGED <<eeg, rois, proj_vec, n_interp, n_components, interpolated>>
  /\ UNCHANGED AnalysisVars

\* eeg.plot(): the user clicks up to MaxClicks channels, which are added to
\* eeg.info['bads']
MarkBads ==
  /\ CanRun("mark_bads")
  /\ \E S \in SUBSET { eeg.ch_names[k] : k \in 1..Len(eeg.ch_names) } :
       /\ Cardinality(S) <= MaxClicks
       /\ eeg' = [eeg EXCEPT !.bads = @ \cup S]
  /\ Ran("mark_bads", "none")
  /\ UNCHANGED <<events, evcodes, rois, proj_vec, n_interp, n_components,
                 interpolated, bound>>
  /\ UNCHANGED AnalysisVars

\* n_interp = len(eeg.info['bads']); eeg = eeg.interpolate_bads(reset_bads=True)
\* (interpolation needs channel positions: it raises on an object without a montage;
\* with no bad channel it does nothing)
Interpolate ==
  /\ CanRun("interpolate")
  /\ n_interp' = Cardinality(eeg.bads)
  /\ bound' = bound \cup {"n_interp"}
  /\ IF eeg.bads # {} /\ ~eeg.montage
     THEN /\ UNCHANGED <<eeg, interpolated>>
          /\ Ran("interpolate", "ValueError")
     ELSE /\ eeg' = [eeg EXCEPT !.bads = {},
                                !.tracked = IF eeg.bads = {} THEN @ ELSE FALSE,
                                !.data = IF eeg.bads = {} THEN @ ELSE <<>>]
          /\ interpolated' = interpolated \cup eeg.bads
          /\ Ran("interpolate", "none")
  /\ UNCHANGED <<events, evcodes, rois, proj_vec, n_components>>
  /\ UNCHANGED AnalysisVars

\* eeg after a call that computes new sample values in place
Recomputed(e) == [e EXCEPT !.tracked = FALSE, !.data = <<>>]

\* run_ab(eeg, threshold=75, method='window'): modifies eeg in place.  On an object that
\* is not Raw the function (artifact_blocking.py) either raises or goes on to modify
\* the object.
ArtifactBlocking ==
  /\ CanRun("artifact_blocking")
  /\ \/ /\ eeg' = Recomputed(eeg)
        /\ Ran("artifact_blocking", "none")
     \/ /\ eeg.kind # "Raw"
        /\ eeg' = eeg
        /\ Ran("artifact_blocking", "Exception")
  /\ UNCHANGED <<events, evcodes, rois, proj_vec, n_interp, n_components,
                 interpolated, bound>>
  /\ UNCHANGED AnalysisVars

\* eeg = eeg.set_eeg_reference(ref_channels='average')
Referencing ==
  /\ CanRun("referencing")
  /\ eeg' = [Recomputed(eeg) EXCEPT !.custom_ref_applied = TRUE]
  /\ Ran("referencing", "none")
  /\ UNCHANGED <<events, evcodes, rois, proj_vec, n_interp, n_components,
                 interpolated, bound>>
  /\ UNCHANGED AnalysisVars

\* eeg = mne.Epochs(eeg, events, tmin=-.5, tmax=1., preload=True): raises when eeg is
\* not Raw, and ValueError('No desired events found.') when events is empty
Epoching ==
  /\ CanRun("epoching")
  /\ IF eeg.kind # "Raw"
     THEN eeg' = eeg /\ Ran("epoching", "TypeError")
     ELSE IF Len(events) = 0
     THEN eeg' = eeg /\ Ran("epoching", "ValueError")
     ELSE /\ eeg' = [Recomputed(eeg) EXCEPT !.kind = "Epochs", !.n_epochs = Len(events)]
          /\ Ran("epoching", "none")
  /\ UNCHANGED <<events, evcodes, rois, proj_vec, n_interp, n_components,
                 interpolated, bound>>
  /\ UNCHANGED AnalysisVars

\* eeg = eeg.apply_baseline((start, stop)): a method of Epochs and of Evoked, Raw has no
\* such method
Baseline ==
  /\ CanRun("baseline")
  /\ IF eeg.kind = "Raw"
     THEN eeg' = eeg /\ Ran("baseline", "AttributeError")
     ELSE eeg' = Recomputed(eeg) /\ Ran("baseline", "none")
  /\ UNCHANGED <<events, evcodes, rois, proj_vec, n_interp, n_components,
                 interpolated, bound>>
  /\ UNCHANGED AnalysisVars

\* the frames with the given (increasing) indices
Frames(data, keep) == [j \in 1..Len(keep) |-> data[keep[j]]]

\* eeg = eeg.drop_bad({'eeg': threshold / 1000000.}): a method of Epochs only; the
\* epochs over the threshold are removed, the others keep their samples
DropBad ==
  /\ CanRun("drop_bad")
  /\ IF eeg.kind # "Epochs"
     THEN eeg' = eeg /\ Ran("drop_bad", "AttributeError")
     ELSE /\ \E kept \in SUBSET (1..eeg.n_epochs) :
               LET keep == SelectSeq([j \in 1..eeg.n_epochs |-> j], LAMBDA j : j \in kept)
               IN eeg' = [eeg EXCEPT
                            !.n_epochs = Len(keep),
                            !.data = IF eeg.tracked THEN Frames(eeg.data, keep) ELSE <<>>]
          /\ Ran("drop_bad", "none")
  /\ UNCHANGED <<events, evcodes, rois, proj_vec, n_interp, n_components,
                 interpolated, bound>>
  /\ UNCHANGED AnalysisVars

\* eeg = eeg.resample(sfreq=100., pad='edge'): a method of Raw, Epochs and Evoked
Resample ==
  /\ CanRun("resample")
  /\ eeg' = Recomputed(eeg)
  /\ Ran("resample", "none")
  /\ UNCHANGED <<events, evcodes, rois, proj_vec, n_interp, n_components,
                 interpolated, bound>>
  /\ UNCHANGED AnalysisVars

\* n_components = len(eeg.ch_names) - (1 + n_interp)
ComponentCount(e, interp) == Len(e.ch_names) - (1 + interp)

\* "Run ICA": NameError when the interpolation cell has not bound n_interp; ICA cannot
\* be fitted with fewer than one component, on no epochs, or on an object that is
\* neither Raw nor Epochs
RunICA ==
  /\ CanRun("ica")
  /\ IF "n_interp" \notin bound
     THEN /\ UNCHANGED <<n_components, bound>>
          /\ Ran("ica", "NameError")
     ELSE /\ n_components' = ComponentCount(eeg, n_interp)
          /\ bound' = bound \cup {"n_components", "method", "random_state", "ica"}
          /\ Ran("ica", IF \/ ComponentCount(eeg, n_interp) < 1
                           \/ (eeg.kind = "Epochs" /\ eeg.n_epochs = 0)
                           \/ eeg.kind \notin {"Raw", "Epochs"}
                        THEN "ValueError" ELSE "none")
  /\ UNCHANGED <<eeg, events, evcodes, rois, proj_vec, n_interp, interpolated>>
  /\ UNCHANGED AnalysisVars

\* mne.pick_channels(ch_names, include): the indices (0-based, increasing) of the
\* channels named in include; every channel when include is empty
pick_channels(ch_names, include) ==
  SelectSeq([k \in 1..Len(ch_names) |-> k - 1],
            LAMBDA k : Len(include) = 0
                         \/ \E m \in 1..Len(include) : include[m] = ch_names[k + 1])

\* proj_vec[i, inds] = 1 on a row of zeros
Indicator(inds, n) ==
  [k \in 1..n |-> IF \E m \in 1..Len(inds) : inds[m] = k - 1 THEN 1 ELSE 0]

\* faulty variant: the row left as the 0/1 indicator, the division left out
Normalise_Skip(row) == [den |-> 1, num |-> row]

\* proj_vec[i, :] /= proj_vec[i, :].sum(): the entries row[k] / sum (0/0 = nan when no
\* channel was found)
Normalise(row) == [den |-> Sum(row), num |-> row]

RECURSIVE Product(_)
Product(s) == IF Len(s) = 0 THEN 1 ELSE Head(s) * Product(Tail(s))

\* the denominators of the rows of a frame, the one of row ch replaced by 1
OtherDens(frame, ch) == [c \in 1..Len(frame) |-> IF c = ch THEN 1 ELSE frame[c].den]

\* np.dot(proj_vec, frame)[i]: the weighted sum of the channel rows, over the product
\* of the denominators; nan (den = 0) as soon as a weight or a sample is nan
DotRow(w, frame) ==
  LET den == w.den * Product([c \in 1..Len(frame) |-> frame[c].den])
  IN [den |-> den,
      num |-> [t \in 1..NTimes |->
                IF den = 0 THEN 0
                ELSE Sum([ch \in 1..Len(frame) |->
                           w.num[ch] * frame[ch].num[t] * Product(OtherDens(frame, ch))])]]

Dot(proj, frame) == [i \in 1..Len(proj) |-> DotRow(proj[i], frame)]

\* a sample matrix of E frames and N channels: the sample of channel ch at time t of
\* frame e is ((ch + shift) % (MaxVolt + 1)) * (t + e - 1)
GradedData(shift, E, N) ==
  [e \in 1..E |-> [ch \in 1..N |->
    [den |-> 1, num |-> [t \in 1..NTimes |-> ((ch + shift) % (MaxVolt + 1)) * (t + e - 1)]]]]

\* eeg.get_data(): the samples if the model has followed them, else any matrix
GetData(e) ==
  IF e.tracked THEN {e.data}
  ELSE { GradedData(shift, IF e.kind = "Raw" THEN 1 ELSE e.n_epochs, Len(e.ch_names)) :
           shift \in 0..MaxVolt }

\* faulty variant: the else branch left out, every object converted
Convertible_Any(e) == TRUE

\* isinstance(eeg, mne.io.BaseRaw) or isinstance(eeg, mne.BaseEpochs): the objects the
\* cell converts
Convertible(e) == e.kind \in {"Raw", "Epochs"}

\* "Creating Regions of Interest"
ROI ==
  /\ CanRun("roi")
  /\ LET n == Len(eeg.ch_names)
         picked == [r \in 1..Len(cell_rois) |->
                     [name |-> cell_rois[r].name,
                      inds |-> pick_channels(eeg.ch_names, cell_rois[r].chans)]]
         proj == [r \in 1..Len(cell_rois) |-> Normalise(Indicator(picked[r].inds, n))]
     IN /\ rois' = picked
        /\ proj_vec' = proj
        /\ IF ~Convertible(eeg)
           THEN \* the else branch: raise ValueError, eeg is not assigned
                /\ roi_source' = [ch_names |-> eeg.ch_names, data |-> <<>>]
                /\ UNCHANGED <<eeg, interpolated>>
                /\ bound' = bound \cup {"rois", "proj_vec", "roi_info"}
                /\ Ran("roi", "ValueError")
           ELSE IF eeg.kind = "Epochs" /\ eeg.n_epochs = 0
           THEN \* np.array([]) is not 3-D: EpochsArray raises
                /\ roi_source' = [ch_names |-> eeg.ch_names, data |-> <<>>]
                /\ UNCHANGED <<eeg, interpolated>>
                /\ bound' = bound \cup {"rois", "proj_vec", "roi_info"}
                /\ Ran("roi", "ValueError")
           ELSE /\ \E d \in GetData(eeg) :
                     /\ roi_source' = [ch_names |-> eeg.ch_names, data |-> d]
                     /\ eeg' = [kind |-> eeg.kind,
                                ch_names |-> [r \in 1..Len(cell_rois) |-> cell_rois[r].name],
                                bads |-> {}, custom_ref_applied |-> FALSE, montage |-> FALSE,
                                n_epochs |-> eeg.n_epochs, tracked |-> TRUE,
                                data |-> [e \in 1..Len(d) |-> Dot(proj, d[e])]]
                /\ interpolated' = {}
                /\ bound' = bound \cup {"rois", "proj_vec", "roi_info"}
                /\ Ran("roi", "none")
  /\ UNCHANGED <<events, evcodes, n_interp, n_components>>
  /\ UNCHANGED AnalysisVars

NextProc ==
  \/ RecodeEvents
  \/ MarkBads
  \/ Interpolate
  \/ ArtifactBlocking
  \/ Referencing
  \/ Epoching
  \/ Baseline
  \/ DropBad
  \/ Resample
  \/ RunICA
  \/ ROI

SpecProc == InitProc /\ [][NextProc]_vars

\* ---------------------------------------------------------------- Processing cells on an Evoked object
\* The cells run in any order in a kernel where eeg was bound by hand to an Evoked
\* object (eeg = eeg.average(), mne.read_evokeds): no cell of the notebook makes one.
EvokedEEG(N) ==
  [kind |-> "Evoked", ch_names |-> SubSeq(Electrodes, 1, N), bads |-> {},
   custom_ref_applied |-> FALSE, montage |-> TRUE, n_epochs |-> 0,
   tracked |-> FALSE, data |-> <<>>]

EvokedSessions ==
  { ProcSession(FALSE, N, DefaultEvents, DefaultFiles, DefaultRois) :
      N \in 1..MaxInteractiveChan }

InitEvoked ==
  /\ \E ses \in EvokedSessions :
       /\ run_all = ses.run_all
       /\ eeg = EvokedEEG(ses.nchan)
       /\ events = ses.events
       /\ evcode_files = ses.files
       /\ cell_rois = ses.rois
  /\ done = 0
  /\ evcodes = <<>>
  /\ rois = <<>>
  /\ proj_vec = <<>>
  /\ roi_source = NoRoiSource
  /\ n_interp = 0
  /\ n_components = 0
  /\ interpolated = {}
  /\ bound = {"eeg", "events"}
  /\ pc = "idle"
  /\ uninit = {}
  /\ err = "none"
  /\ last = "none"
  /\ erp1 = Recording(1, 1, 1, <<<<0>>>>)
  /\ cell_target_freqs = <<>>
  /\ nfreqs = 0
  /\ sampling_rate = 0
  /\ freqs = NoFreqs
  /\ amp = <<>>
  /\ sub_amp = <<>>
  /\ norm_amp = <<>>
  /\ target_freqs = <<>>
  /\ closest_freqs = NoFreqs
  /\ target_amp = <<>>

SpecEvoked == InitEvoked /\ [][NextProc]_vars

\* ---------------------------------------------------------------- properties
\* sum of row[j] (Python index j) over a set of in-range bins
RECURSIVE SumOver(_, _)
SumOver(row, S) ==
  IF S = {} THEN 0
  ELSE LET j == CHOOSE x \in S : TRUE IN row[j + 1] + SumOver(row, S \ {j})

Max(a, b) == IF a >= b THEN a ELSE b

Bins(m) == 0..(Shape1(m) - 1)
Chans(m) == 1..Shape0(m)

\* the bins at the offsets -5..-3, 3..5 from bin i that lie inside the spectrum
ShiftedNeighbours(i, F) == { i + k : k \in {-5, -4, -3, 3, 4, 5} } \cap (0..(F - 1))

\* the bins i-1, i, i+1 that lie inside the spectrum
SmoothNeighbours(i, F) == { i - 1, i, i + 1 } \cap (0..(F - 1))

AllZero(m) == \A c \in Chans(m) : \A i \in Bins(m) : m[c][i + 1] = 0

\* the tagging cell is between its subtraction loop and its clamping statement
AfterSubtract == pc = "clamp"
\* the tagging cell has clamped sub_amp and not yet deleted it
AfterClamp == pc \in {"smooth", "del"}
\* the tagging cell has filled norm_amp and not yet deleted sub_amp
AfterSmooth == pc = "del"
\* the tagging cell is past "Run FFT" and still running
AfterFFT == pc \in {"subtract", "clamp", "smooth", "del"}
\* the target-frequency cell ran last and ended without an exception
AfterLookup == last = "target" /\ pc = "idle" /\ err = "none"

\* C1 (as claimed): before clamping, sub_amp[c, i] is amp[c, i] minus the mean of amp[c, j]
\* over the in-range bins j = i + k, k in {-5,-4,-3,3,4,5}.
\* (sub_amp is amplitude * SubScale; both sides are multiplied by the number of neighbours.)
C1_ShiftedBaseline ==
  AfterSubtract =>
    \A c \in Chans(amp) : \A i \in Bins(amp) :
      LET S == ShiftedNeighbours(i, Shape1(amp))
          m == Cardinality(S)
      IN m > 0 =>
           sub_amp[c][i + 1] * m = SubScale * (amp[c][i + 1] * m - SumOver(amp[c], S))

\* C2: after the clamping statement every entry of sub_amp is max(0, amp - baseline), the
\* baseline being the mean the loop subtracted, so it is >= 0; every entry of norm_amp,
\* once the smoothing loop has filled it, is >= 0.
C2_ClampNonNegative ==
  /\ AfterClamp =>
       \A c \in Chans(sub_amp) : \A i \in Bins(sub_amp) :
         /\ sub_amp[c][i + 1] >= 0
         /\ sub_amp[c][i + 1] =
              Max(0, SubScale * amp[c][i + 1]
                       - Sum(Take(amp[c], BaselineInds(i, Shape1(amp)))))
  /\ (AfterSmooth \/ (pc = "idle" /\ "norm_amp" \in bound)) =>
       \A c \in Chans(norm_amp) : \A i \in Bins(norm_amp) : norm_amp[c][i + 1] >= 0

\* C2 witness: the clamp has replaced a negative difference by 0 and norm_amp holds a
\* positive entry
C2_Witness ==
  /\ AfterSmooth
  /\ \E c \in Chans(amp) : \E i \in Bins(amp) :
       /\ SubScale * amp[c][i + 1] < Sum(Take(amp[c], BaselineInds(i, Shape1(amp))))
       /\ sub_amp[c][i + 1] = 0
  /\ \E c \in Chans(norm_amp) : \E i \in Bins(norm_amp) : norm_amp[c][i + 1] > 0

\* C3: norm_amp[c, i] is the arithmetic mean of sub_amp[c, j] over exactly the in-range
\* bins j of {i-1, i, i+1}: 2 bins at bins 0 and F-1 (1 bin when F = 1), 3 bins inside.
\* (norm_amp is sub_amp * SmoothScale.)
C3_Smoothing ==
  AfterSmooth =>
    /\ Shape1(norm_amp) = Shape1(sub_amp)
    /\ \A c \in Chans(sub_amp) : \A i \in Bins(sub_amp) :
         LET F == Shape1(sub_amp)
             S == SmoothNeighbours(i, F)
         IN /\ Cardinality(S) = (IF F = 1 THEN 1 ELSE IF i \in {0, F - 1} THEN 2 ELSE 3)
            /\ norm_amp[c][i + 1] * Cardinality(S) = SmoothScale * SumOver(sub_amp[c], S)

\* C3 witness: a smoothed row has a non-zero entry in an edge bin and in an interior bin
C3_Witness ==
  /\ AfterSmooth
  /\ \E c \in Chans(norm_amp) :
       /\ norm_amp[c][1] > 0 \/ norm_amp[c][Shape1(norm_amp)] > 0
       /\ \E i \in 1..(Shape1(norm_amp) - 2) : norm_amp[c][i + 1] > 0

\* |freqs[j] - f| for the target numerator f, times freqs.den * TargetDen
Dist(j, f) == Abs(freqs.num[j + 1] * TargetDen - f * freqs.den)

\* bin j is nearest to the target f, and is the lowest-indexed such bin
Nearest(j, f) ==
  /\ \A k \in 0..(Len(freqs.num) - 1) : Dist(j, f) <= Dist(k, f)
  /\ \A k \in 0..(j - 1) : Dist(k, f) > Dist(j, f)

\* C4: for every target frequency the lookup takes the bin that minimises |freqs[j] - f|,
\* the lowest index among equals; closest_freqs[i] is that bin's frequency and
\* target_amp[:, i] is that bin's column of amp.
C4_NearestBin ==
  AfterLookup =>
    /\ Len(closest_freqs.num) = Len(target_freqs)
    /\ closest_freqs.den = freqs.den
    /\ Shape0(target_amp) = Shape0(amp)
    /\ \A i \in 1..Len(target_freqs) :
         \E j \in 0..(Len(freqs.num) - 1) :
           /\ Nearest(j, target_freqs[i])
           /\ closest_freqs.num[i] = freqs.num[j + 1]
           /\ \A c \in Chans(amp) :
                /\ Len(target_amp[c]) = Len(target_freqs)
                /\ target_amp[c][i] = amp[c][j + 1]

\* C4 witness: a lookup ran with a target midway between two bins (a tie) and a target
\* that is no bin frequency
C4_Witness ==
  /\ AfterLookup
  /\ \E i \in 1..Len(target_freqs) :
       \E j \in 0..(Len(freqs.num) - 2) :
         /\ Nearest(j, target_freqs[i])
         /\ Dist(j + 1, target_freqs[i]) = Dist(j, target_freqs[i])
         /\ Dist(j, target_freqs[i]) > 0
         /\ \E c \in Chans(amp) : amp[c][j + 1] # amp[c][j + 2]

\* C5 (as claimed): target_amp[:, i] is the column of norm_amp at the nearest bin.
\* (norm_amp is amplitude * NormScale.)
C5_TargetIsNormalized ==
  (AfterLookup /\ "norm_amp" \in bound) =>
    \A i \in 1..Len(target_freqs) :
      \E j \in 0..(Len(freqs.num) - 1) :
        /\ Nearest(j, target_freqs[i])
        /\ \A c \in Chans(amp) : target_amp[c][i] * NormScale = norm_amp[c][j + 1]

\* C6 (as claimed): a bin whose in-range neighbours at the reference offsets are all zero
\* keeps its amplitude through baseline subtraction.
C6_ZeroNeighboursKeep ==
  (AfterSubtract \/ AfterClamp) =>
    \A c \in Chans(amp) : \A i \in Bins(amp) :
      (\A j \in ShiftedNeighbours(i, Shape1(amp)) : amp[c][j + 1] = 0)
        => sub_amp[c][i + 1] = SubScale * amp[c][i + 1]

\* C7 (as claimed): for every spectrum with F >= 1 bins the subtraction loop ends without
\* an exception and every index it reads lies in 0..F-1.
C7_NoBoundaryError ==
  (last = "tagging" /\ pc # "subtract" /\ Shape1(amp) >= 1) =>
    /\ err = "none"
    /\ \A i \in Bins(amp) :
         \A k \in 1..Len(BaselineInds(i, Shape1(amp))) :
           BaselineInds(i, Shape1(amp))[k] \in Bins(amp)

\* C8: after the FFT step freqs and amp have the same number of bins, every frequency is
\* >= 0, bin 0 is frequency 0 and holds the DC magnitude, freqs is strictly increasing;
\* norm_amp, once made, has the shape of amp.
C8_SpectrumShape ==
  /\ AfterFFT =>
       /\ Len(freqs.num) = Shape1(amp)
       /\ Shape0(amp) = erp1.nchan
       /\ \A c \in Chans(amp) : Len(amp[c]) = Len(freqs.num)
       /\ Len(freqs.num) >= 1
       /\ freqs.num[1] = 0
       /\ \A c \in Chans(amp) : amp[c][1] = erp1.spectrum[c][1]
       /\ \A j \in 1..Len(freqs.num) : freqs.num[j] >= 0
       /\ \A j \in 1..(Len(freqs.num) - 1) : freqs.num[j] < freqs.num[j + 1]
  /\ AfterSmooth =>
       /\ Shape0(norm_amp) = Shape0(amp)
       /\ \A c \in Chans(norm_amp) : Len(norm_amp[c]) = Shape1(amp)

\* C8 witness: the tagging cell has made norm_amp for a spectrum of several bins
C8_Witness == AfterSmooth /\ Shape1(amp) > 6 /\ Shape0(amp) > 1 /\ sampling_rate > 1

C10_ZeroInZeroOut ==
  AllZero(amp) =>
    /\ (AfterSubtract \/ AfterClamp) => AllZero(sub_amp)
    /\ AfterSmooth => AllZero(norm_amp) /\ Shape1(norm_amp) = Shape1(amp)

\* C10 witness: the tagging cell has smoothed an all-zero spectrum of two channels
C10_Witness == AfterSmooth /\ AllZero(amp) /\ Shape0(amp) = 2 /\ Shape1(amp) >= 6

\* target i of the lookup is the frequency of some bin of freqs
IsBinFrequency(i) ==
  \E j \in 1..Len(freqs.num) : freqs.num[j] * TargetDen = target_freqs[i] * freqs.den

\* C11: when every target frequency equals some value of freqs, the lookup returns
\* exactly the targets: closest_freqs[i] = target_freqs[i] for every i.
C11_ExactTargets ==
  (AfterLookup /\ \A i \in 1..Len(target_freqs) : IsBinFrequency(i)) =>
    /\ Len(closest_freqs.num) = Len(target_freqs)
    /\ \A i \in 1..Len(target_freqs) :
         closest_freqs.num[i] * TargetDen = target_freqs[i] * closest_freqs.den

\* C11 witness: a lookup ran with two different non-zero targets that are both bin
\* frequencies
C11_Witness ==
  /\ AfterLookup
  /\ Len(target_freqs) = 2
  /\ \A i \in 1..2 : IsBinFrequency(i) /\ target_freqs[i] > 0
  /\ target_freqs[1] # target_freqs[2]
  /\ closest_freqs.num[1] # closest_freqs.num[2]

\* the values of a row are not all equal
NotConstant(row) == \E i, j \in 1..Len(row) : row[i] # row[j]

\* smooth(smooth(x)) # smooth(x) for the smoothed row y = smooth(x) * SmoothScale:
\* smoothing y changes some bin
SecondPassDiffers(y) ==
  \E i \in 0..(Len(y) - 1) : SmoothValue(y, i) # SmoothScale * y[i + 1]

C13_RejectsInvalid ==
  (last = "tagging" /\ (erp1.ntimes = 0 \/ erp1.sfreq <= 0)) =>
    /\ err # "none"
    /\ pc = "idle"
    /\ bound = {"erp1"}

\* C14 (as claimed): the target-frequency cell run with an empty target_freqs on a
\* computed spectrum ends with an exception, not with empty closest_freqs and
\* target_amp arrays.
C14_RejectsEmptyTargets ==
  (last = "target" /\ "amp" \in bound /\ Len(target_freqs) = 0) =>
    /\ err # "none"
    /\ "closest_freqs" \notin bound
    /\ "target_amp" \notin bound

\* amp[c, F-5] + amp[c, F-4] + amp[c, F-3] + amp[c, 3] + amp[c, 4] + amp[c, 5] for a row
\* of F >= 6 bins: the six entries the index array [-5,-4,-3,3,4,5] reads, a bin that
\* two indices name counted twice
FixedBinsSum(row) ==
  LET F == Len(row)
  IN row[F - 5 + 1] + row[F - 4 + 1] + row[F - 3 + 1] + row[3 + 1] + row[4 + 1] + row[5 + 1]

\* C20: the baseline subtracted from amp[c, i] is the same for every bin i of a channel:
\* the mean of amp[c, j] over the fixed index array [-5,-4,-3,3,4,5] with negative
\* indices wrapped, i.e. over bins F-5, F-4, F-3, 3, 4, 5.
\* (sub_amp is amplitude * SubScale, SubScale being the six entries of the mean.)
C20_FixedBaseline ==
  AfterSubtract =>
    /\ Shape1(amp) >= 6
    /\ SubScale = 6
    /\ \A c \in Chans(amp) : \A i \in Bins(amp) :
         sub_amp[c][i + 1] = SubScale * amp[c][i + 1] - FixedBinsSum(amp[c])

\* C20 witness: the subtraction loop ran on a channel whose fixed baseline is not zero
\* and differs from the mean over the in-range shifted neighbours of some bin
C20_Witness ==
  /\ AfterSubtract
  /\ \E c \in Chans(amp) :
       /\ FixedBinsSum(amp[c]) > 0
       /\ \E i \in Bins(amp) :
            LET S == ShiftedNeighbours(i, Shape1(amp))
            IN SumOver(amp[c], S) * SubScale # FixedBinsSum(amp[c]) * Cardinality(S)

\* C21 (as claimed): whenever the target-frequency cell has looked up a target in the
\* spectrum the tagging cell computed,
\* the global freqs is the frequency axis of the current amp: len(freqs) = amp.shape[1]
\* and freqs[j] is j * sampling_rate / nfreqs, the frequency of column j of amp,
\* whichever cells ran before it.
C21_FreqsIsAxisOfAmp ==
  (last = "target" /\ err = "none" /\ "norm_amp" \in bound /\ Len(target_freqs) > 0) =>
    /\ Len(freqs.num) = Shape1(amp)
    /\ \A j \in 1..Len(freqs.num) :
         freqs.num[j] * nfreqs = (j - 1) * sampling_rate * freqs.den

NBins(e) == IF e.ntimes % 2 = 0 THEN e.ntimes \div 2 ELSE (e.ntimes + 1) \div 2

\* bin j of the FFT of T time points at the rate r is j * r / T Hz
ExpectedFreqs(e) == [den |-> e.ntimes, num |-> [j \in 1..NBins(e) |-> (j - 1) * e.sfreq]]

\* the magnitudes of the bins 0..NBins-1
ExpectedAmp(e) == [c \in 1..e.nchan |-> [j \in 1..NBins(e) |-> e.spectrum[c][j]]]

\* a row minus the mean of its six fixed reference entries, negative values set to 0
\* (times SubScale)
ExpectedSub(row) ==
  [i \in 1..Len(row) |-> Max(0, SubScale * row[i] - FixedBinsSum(row))]

\* the mean over the in-range bins of {i-1, i, i+1} (times SmoothScale)
ExpectedSmooth(row) ==
  [i \in 1..Len(row) |->
    LET S == SmoothNeighbours(i - 1, Len(row))
    IN (SmoothScale \div Cardinality(S)) * SumOver(row, S)]

ExpectedNorm(e) == [c \in 1..e.nchan |-> ExpectedSmooth(ExpectedSub(ExpectedAmp(e)[c]))]

\* |fr[j] - f| for the target numerator f, times fr.den * TargetDen
DistIn(fr, j, f) == Abs(fr.num[j + 1] * TargetDen - f * fr.den)

\* the lowest-indexed bin of fr nearest to the target f
NearestIn(fr, f) ==
  CHOOSE j \in 0..(Len(fr.num) - 1) :
    /\ \A k \in 0..(Len(fr.num) - 1) : DistIn(fr, j, f) <= DistIn(fr, k, f)
    /\ \A k \in 0..(j - 1) : DistIn(fr, k, f) > DistIn(fr, j, f)

ExpectedClosest(e, tf) ==
  [den |-> e.ntimes,
   num |-> [i \in 1..Len(tf) |-> ExpectedFreqs(e).num[NearestIn(ExpectedFreqs(e), tf[i]) + 1]]]

ExpectedTarget(e, tf) ==
  [c \in 1..e.nchan |->
    [i \in 1..Len(tf) |-> ExpectedAmp(e)[c][NearestIn(ExpectedFreqs(e), tf[i]) + 1]]]

\* the tagging cell ran last and ended without an exception
TaggingDone == last = "tagging" /\ pc = "idle" /\ err = "none"

C15_ComponentCount ==
  (last = "ica" /\ err = "none") =>
    n_components = Len(eeg.ch_names)
                     - (IF eeg.custom_ref_applied THEN 1 ELSE 0)
                     - Cardinality(interpolated)

\* the positions (1-based) in the channel list the ROI cell read of the channels that
\* ROI r names
Members(r) ==
  { k \in 1..Len(roi_source.ch_names) :
      \E m \in 1..Len(cell_rois[r].chans) : cell_rois[r].chans[m] = roi_source.ch_names[k] }

\* the ROI cell ran last and replaced eeg
AfterROI == last = "roi" /\ err = "none"

\* sum over a set of channel positions of the sample at time t of frame e the cell read
RECURSIVE SourceSum(_, _, _)
SourceSum(S, e, t) ==
  IF S = {} THEN 0
  ELSE LET k == CHOOSE x \in S : TRUE
       IN roi_source.data[e][k].num[t] + SourceSum(S \ {k}, e, t)

\* C16: for every ROI with k >= 1 listed channels present in eeg.ch_names, its row of
\* proj_vec is 1/k at exactly those channels and 0 elsewhere (row sum 1), and its output
\* channel is the arithmetic mean of those channels at every time point of every frame;
\* the new eeg has one channel per ROI, in dict order, named after the ROIs.
C16_RoiMean ==
  AfterROI =>
    /\ Len(proj_vec) = Len(cell_rois)
    /\ eeg.ch_names = [r \in 1..Len(cell_rois) |-> cell_rois[r].name]
    /\ Len(eeg.data) = Len(roi_source.data)
    /\ \A e \in 1..Len(eeg.data) : Len(eeg.data[e]) = Len(cell_rois)
    /\ \A r \in 1..Len(cell_rois) :
         LET k == Cardinality(Members(r))
         IN k >= 1 =>
              /\ proj_vec[r].den # 0
              /\ Len(proj_vec[r].num) = Len(roi_source.ch_names)
              /\ \A ch \in 1..Len(roi_source.ch_names) :
                   proj_vec[r].num[ch] * k = (IF ch \in Members(r) THEN proj_vec[r].den ELSE 0)
              /\ Sum(proj_vec[r].num) = proj_vec[r].den
              /\ \A e \in 1..Len(eeg.data) : \A t \in 1..NTimes :
                   /\ eeg.data[e][r].den # 0
                   /\ \A ch \in Members(r) : roi_source.data[e][ch].den = 1
                   /\ eeg.data[e][r].num[t] * k = eeg.data[e][r].den * SourceSum(Members(r), e, t)

\* C16 witness: the ROI cell converted two epochs into two ROI channels, one of them the
\* mean of two channels with different samples, the mean not being zero
C16_Witness ==
  /\ AfterROI
  /\ eeg.kind = "Epochs"
  /\ Len(eeg.data) = 2
  /\ Len(cell_rois) = 2
  /\ \E r \in 1..Len(cell_rois) :
       /\ Cardinality(Members(r)) = 2
       /\ \E a, b \in Members(r) : roi_source.data[1][a].num[1] # roi_source.data[1][b].num[1]
       /\ eeg.data[1][r].num[1] > 0

\* the j-th code (1-based) of the event-code files read one after the other; 0 when the
\* files hold fewer than j codes
RECURSIVE CodeAt(_, _)
CodeAt(files, j) ==
  IF Len(files) = 0 THEN 0
  ELSE IF j <= Len(Head(files)) THEN Head(files)[j]
  ELSE CodeAt(Tail(files), j - Len(Head(files)))

RECURSIVE CountCodes(_)
CountCodes(files) == IF Len(files) = 0 THEN 0 ELSE Len(Head(files)) + CountCodes(Tail(files))

\* the rows of ev with trigger code 1, found by position
RetainedRows(ev) == { j \in 1..Len(ev) : ev[j][3] = 1 }

\* the number of retained rows among the first j rows of ev
RankAmongRetained(ev, j) == Cardinality({ i \in RetainedRows(ev) : i <= j })

\* C17 (as claimed): a run of the re-coding cell that ends without an exception keeps
\* columns 0 and 1 of every retained event, in order, and sets events[j, 2] to the
\* j-th code of the files' codes taken in evcode_files order.
C17_RecodeThirdColumn ==
  [][(last' = "recode" /\ err' = "none") =>
       /\ Len(events') = Cardinality(RetainedRows(events))
       /\ \A i \in RetainedRows(events) :
            LET j == RankAmongRetained(events, i)
            IN /\ events'[j][1] = events[i][1]
               /\ events'[j][2] = events[i][2]
               /\ j <= CountCodes(evcode_files)
               /\ events'[j][3] = CodeAt(evcode_files, j)]_vars

\* C18: in a top-to-bottom run run_ab is called on a Raw object, and eeg is Epochs only
\* once the epoching cell has run.
C18_BlockingOnRaw ==
  run_all =>
    /\ last = "artifact_blocking" => eeg.kind = "Raw"
    /\ eeg.kind = "Epochs" => done >= Position("epoching")

\* C18 witness: a top-to-bottom run has just run artifact blocking
C18_Witness ==
  /\ run_all
  /\ last = "artifact_blocking"
  /\ err = "none"
  /\ eeg.kind = "Raw"
  /\ done = Position("artifact_blocking")

\* C19: in a top-to-bottom run apply_baseline, drop_bad and resample are called on an
\* Epochs object, and eeg stays Epochs from the epoching cell on.
C19_EpochMethodsOnEpochs ==
  run_all =>
    /\ last \in {"baseline", "drop_bad", "resample"} => (eeg.kind = "Epochs" /\ err = "none")
    /\ done > Position("epoching") => eeg.kind = "Epochs"

\* C19 witness: a top-to-bottom run has just resampled the epochs
C19_Witness ==
  /\ run_all
  /\ last = "resample"
  /\ err = "none"
  /\ eeg.kind = "Epochs"
  /\ eeg.n_epochs > 0

\* C22 (as claimed): after every run of the interpolation cell that ends without an
\* exception, n_interp is the number of channels interpolated in eeg so far, however often
\* the cell was run and whichever channels were marked bad in between (some channel
\* being left to interpolate from).
C22_CountsEveryInterpolation ==
  (last = "interpolate" /\ err = "none" /\ Len(eeg.ch_names) > Cardinality(interpolated)) =>
    n_interp = Cardinality(interpolated)

\* C25: when eeg is neither a Raw nor an Epochs object, a run of the ROI cell ends with
\* ValueError and leaves eeg bound to the object it was bound to, unmodified.
C25_UnsupportedObjectKept ==
  [][(eeg.kind \notin {"Raw", "Epochs"} /\ last' = "roi") =>
       /\ err' = "ValueError"
       /\ eeg' = eeg]_vars

\* C25 witness: the ROI cell has raised ValueError on an average-referenced Evoked
\* object of several channels, after building its weight matrix
C25_Witness ==
  /\ last = "roi"
  /\ err = "ValueError"
  /\ eeg.kind = "Evoked"
  /\ eeg.custom_ref_applied
  /\ Len(eeg.ch_names) > 1
  /\ eeg.ch_names = roi_source.ch_names
  /\ Len(proj_vec) > 0

\* ROI r of the dict names a channel that was not in eeg.ch_names when the cell ran
NamesUnknownChannel(r) ==
  \E m \in 1..Len(cell_rois[r].chans) :
    \A k \in 1..Len(roi_source.ch_names) : cell_rois[r].chans[m] # roi_source.ch_names[k]

\* C26 (as claimed): a run of the ROI cell whose dict names a channel that is not in
\* eeg.ch_names ends with an exception: eeg is not replaced by ROI channels averaged
\* over the channels that were found.
C26_RejectsUnknownChannels ==
  (last = "roi" /\ \E r \in 1..Len(cell_rois) : NamesUnknownChannel(r)) => err # "none"

====
